---- MODULE Spec2Model ----
(***************************************************************************)
(* The authorization and submission-lifecycle core of the CodeSpace        *)
(* backend: the /api/code and /api/admin request handlers working on the   *)
(* two collections (users, codes).                                         *)
(*                                                                         *)
(* A request occupies a slot of reqs from its arrival to its response.     *)
(* Every await of a handler that reads or writes a collection is one step; *)
(* steps that touch no collection (validation, building the prompt, the    *)
(* AI service answering) are merged into the step that follows them.       *)
(* Spec runs the requests one at a time; the other specifications         *)
(* interleave the steps of up to MaxInFlight requests.                     *)
(*                                                                         *)
(* Optional values (JavaScript undefined / null) are sequences of length   *)
(* zero, present values sequences of length one.  Timestamps (createdAt,   *)
(* analyzedAt, feedbackAt) are left out: no handler reads them back.       *)
(***************************************************************************)
EXTENDS Integers, Sequences, FiniteSets, TLC

VARIABLES users, codes, nextUserId, nextCodeId, reqs

vars == <<users, codes, nextUserId, nextCodeId, reqs>>

\* Bounds of the model.
MaxUsers == 2
MaxCodes == 1
MaxInFlight == 2
\* The users of the specification of the identity store (SpecUsers).
MaxAccounts == 3
\* The specification of the listings (SpecReads): the students and the
\* submissions stored, the pages asked for and the page sizes.
MaxListed == 3
MaxPage == 3
MaxLimit == 2
\* The specification of the edits (SpecEdits): the saves of one submission
\* that set its tags anew.
MaxVersion == 3

UserIds == 1..MaxUsers
CodeIds == 1..MaxCodes
Slots == 1..MaxInFlight

\* A request that carries no (valid) bearer token.
Anon == 0

\* A resource identifier in a path that is not an ObjectId ('invalid-id'):
\* findById throws a CastError on it.
Malformed == -1

Undefined == <<>>
Some(x) == <<x>>

Languages == {"javascript", "python", "java", "cpp", "c"}

Statuses == {"submitted", "analyzed", "reviewed", "graded"}

\* The maxlength of codeSchema.title and of codeSchema.description.
TitleMax == 100
DescriptionMax == 500

----------------------------------------------------------------------------
\* Request inputs.  A body carries the five fields the handlers read and may
\* carry fields of the document that the client has no say in (user, status,
\* analysis, feedback).

NoBody ==
  [title |-> "", description |-> Undefined, language |-> "", code |-> "",
   tags |-> Undefined, user |-> Undefined, status |-> Undefined,
   analysis |-> Undefined, feedback |-> Undefined]

FullBody ==
  [NoBody EXCEPT !.title = "t1", !.description = Some("d1"),
                 !.language = "javascript", !.code = "c1", !.tags = Some(<<"x">>),
                 !.user = Some(1), !.status = Some("graded"),
                 !.analysis = Some([result |-> "forged"]),
                 !.feedback = Some([teacher |-> 1, comment |-> "forged",
                                    grade |-> Some(100)])]

BareBody ==
  [NoBody EXCEPT !.title = "t2", !.language = "python", !.code = "c2"]

BadBody ==
  [NoBody EXCEPT !.language = "ruby", !.code = "c1"]

\* A body that clears the description and the tags.
ClearBody ==
  [NoBody EXCEPT !.title = "t3", !.description = Some(""), !.language = "java",
                 !.code = "c3", !.tags = Some(<<>>)]

\* A title of 101 characters and a description of 501.
LongTitle == "ttttttttttttttttttttttttttttttttttttttttttttttttttttttttttttttttttttttttttttttttttttttttttttttttttttt"

LongDescription ==
  "ddddddddddddddddddddddddddddddddddddddddddddddddddddddddddddddddddddddddddddddddddddddddddddddddddddddddddddddddddddddddddddddddddddddddddddddddddddddddddddddddddddddddddddddddddddddddddddddddddddddddddddddddddddddddddddddddddddddddddddddddddddddddddddddddddddddddddddddddddddddddddddddddddddddddddddddddddddddddddddddddddddddddddddddddddddddddddddddddddddddddddddddddddddddddddddddddddddddddddddddddddddddddddddddddddddddddddddddddddddddddddddddddddddddddddddddddddddddddddddddddddddddddddddddddddddd"

LongTitleBody == [BareBody EXCEPT !.title = LongTitle]

LongDescriptionBody == [BareBody EXCEPT !.description = Some(LongDescription)]

\* Bodies that break a rule of the validation or of the schema, and two
\* that break none.
RuleBodies == {FullBody, BareBody, BadBody, LongTitleBody, LongDescriptionBody}

\* The bodies of create requests and of update requests.
CreateBodies == {FullBody, BadBody}

UpdateBodies == {FullBody, BareBody, BadBody}

\* Feedback without a grade and with the grades 0, 40 and 85.
GradeInputs ==
  {[comment |-> "ok", grade |-> g] : g \in {Undefined, Some(0), Some(40), Some(85)}}

\* The feedback of a first teacher, and that of a second one, with another
\* comment and with another grade or none.
FirstFeedback == {[comment |-> "ok", grade |-> Some(85)]}

SecondFeedback ==
  {[comment |-> "better", grade |-> g] : g \in {Undefined, Some(90)}}

\* The bodies of feedback requests: grade omitted, or a JSON number.
FeedbackInputs ==
  {[comment |-> "ok", grade |-> Undefined],
   [comment |-> "ok", grade |-> Some(0)],
   [comment |-> "ok", grade |-> Some(85)],
   [comment |-> "ok", grade |-> Some(150)],
   [comment |-> "", grade |-> Some(85)]}

\* The body of POST /users: the three fields the handler reads, and a role
\* that the client may add.
NoUserInput == [username |-> "", email |-> "", password |-> "", role |-> Undefined]

\* Accounts that clash with one another in the username, the email or both.
ConflictInputs ==
  {[username |-> "alice", email |-> "alice@example.com", password |-> "password123",
    role |-> Undefined],
   [username |-> "alice", email |-> "bob@example.com", password |-> "password123",
    role |-> Undefined],
   [username |-> "bob", email |-> "alice@example.com", password |-> "password123",
    role |-> Undefined],
   [username |-> "bob", email |-> "bob@example.com", password |-> "password123",
    role |-> Undefined]}

\* Accounts asked for with a role: alice as a teacher, bob as a student or
\* with no role.
RoleInputs ==
  {[username |-> "alice", email |-> "alice@example.com", password |-> "password123",
    role |-> Some("teacher")],
   [username |-> "bob", email |-> "bob@example.com", password |-> "password123",
    role |-> Some("student")],
   [username |-> "bob", email |-> "bob@example.com", password |-> "password123",
    role |-> Undefined]}

\* Registrations: the username and the email of the default admin or of
\* alice, with no role or with the role teacher.
RegisterInputs ==
  {[username |-> n, email |-> e, password |-> "password123", role |-> r] :
     n \in {"admin", "alice"}, e \in {"admin@codespace.com", "alice@example.com"},
     r \in {Undefined, Some("teacher")}}

UserInputs ==
  {[username |-> "alice", email |-> "alice@example.com", password |-> "password123",
    role |-> Undefined],
   [username |-> "bob", email |-> "bob@example.com", password |-> "password123",
    role |-> Undefined],
   [username |-> "al", email |-> "alice@example.com", password |-> "password123",
    role |-> Undefined]}

\* The default of the query parameter limit.
DefaultLimit == 10

\* The query string of a listing: page and limit (numeric strings that the
\* arithmetic of the handler turns into numbers), and the filters.
NoQuery ==
  [page |-> 1, limit |-> DefaultLimit, language |-> Undefined,
   status |-> Undefined, search |-> Undefined]

\* Every page of every size, without filters.
PageQueries ==
  {[NoQuery EXCEPT !.page = p, !.limit = l] : p \in 1..MaxPage, l \in 1..MaxLimit}

\* The default page, with and without each filter; an empty language is a
\* filter that was not sent.
FilterQueries ==
  {[NoQuery EXCEPT !.language = l, !.status = st, !.search = se] :
     l \in {Undefined, Some("javascript"), Some("")},
     st \in {Undefined, Some("submitted")},
     se \in {Undefined, Some("T1"), Some("AL"), Some(".")}}

\* The body of the response of a listing (items, total, totalPages) or of
\* the dashboard (totalStudents, totalSubmissions, languageStats, gradeStats).
\* A grade statistic is a number or null; the average is kept as the
\* fraction <<sum, count>>.
NoRes ==
  [items |-> <<>>, total |-> 0, totalPages |-> 0,
   totalStudents |-> 0, totalSubmissions |-> 0, languageStats |-> <<>>,
   gradeStats |-> [avgGrade |-> Undefined, minGrade |-> Undefined,
                   maxGrade |-> Undefined]]

\* What the AI service may do with a generate call.
AiOutcomes == {"ok", "ECONNREFUSED", "timeout"}

\* The report the AI service returns for a piece of code.
AiReport(language, code) == <<"report", language, code>>

----------------------------------------------------------------------------
\* Documents.

NoDoc ==
  [user |-> 0, title |-> "", description |-> Undefined, language |-> "",
   code |-> "", tags |-> <<>>, status |-> "", analysis |-> Undefined,
   feedback |-> Undefined, __v |-> 0]

Idle ==
  [op |-> "idle", pc |-> "idle", actor |-> Anon, role |-> "", id |-> 0,
   body |-> NoBody, comment |-> "", grade |-> Undefined,
   newUser |-> NoUserInput, doc |-> NoDoc, ai |-> "", status |-> 0,
   error |-> "", query |-> NoQuery, res |-> NoRes]

\* The bootstrap of connectDB: the default admin account.
AdminUser ==
  [username |-> "admin", email |-> "admin@codespace.com", role |-> "teacher"]


\* The accounts and the submissions that the listings are read from.
StudentNames == <<"alice", "bob", "carol", "dave">>

StudentEmails ==
  <<"alice@example.com", "bob@example.com", "carol@example.com", "dave@example.com">>

Student(u) ==
  [username |-> StudentNames[u - 1], email |-> StudentEmails[u - 1], role |-> "student"]

\* An account registered with the role teacher.
Teacher(u) == [Student(u) EXCEPT !.role = "teacher"]

SampleDocs ==
  {[NoDoc EXCEPT !.user = 2, !.title = "t1", !.language = "javascript",
                 !.code = "c1", !.status = "submitted"],
   [NoDoc EXCEPT !.user = 2, !.title = "t2", !.description = Some("t1"),
                 !.language = "python", !.code = "c2", !.status = "graded",
                 !.feedback = Some([teacher |-> 1, comment |-> "ok", grade |-> Some(85)])],
   [NoDoc EXCEPT !.user = 3, !.title = "t1", !.language = "javascript",
                 !.code = "c1", !.status = "submitted"],
   [NoDoc EXCEPT !.user = 1, !.title = "t1", !.language = "java",
                 !.code = "c1", !.status = "analyzed",
                 !.analysis = Some([result |-> AiReport("java", "c1")])]}

\* A store as the write requests can leave it: the admin, up to MaxListed
\* students, up to MaxListed submissions of these users.
InitReads ==
  /\ \E k \in 0..MaxListed :
       users = [u \in 1..(k + 1) |-> IF u = 1 THEN AdminUser ELSE Student(u)]
  /\ \E n \in 0..MaxListed :
       \E docs \in [1..n -> SampleDocs] :
         /\ \A c \in 1..n : docs[c].user \in DOMAIN users
         /\ codes = docs
  /\ nextUserId = Len(users) + 1
  /\ nextCodeId = Len(codes) + 1
  /\ reqs = [s \in Slots |-> Idle]

Init ==
  /\ users = (1 :> AdminUser)
  /\ codes = << >>
  /\ nextUserId = 2
  /\ nextCodeId = 1
  /\ reqs = [s \in Slots |-> Idle]

----------------------------------------------------------------------------
\* Middleware.

\* protect: the bearer token resolves to a stored user, else 401.
protect(actor) == IF actor \in DOMAIN users THEN 0 ELSE 401

\* authorize(...roles): the authenticated user's role is one of roles, else 403.
authorize(roles, actor) == IF users[actor].role \in roles THEN 0 ELSE 403

\* router.use(protect): the gate in front of every /api/admin route, as a
\* plausible slip would leave it.
AdminGateNoRole(actor) == protect(actor)

\* router.use(protect, authorize('teacher')).
AdminGate(actor) ==
  IF protect(actor) # 0 THEN protect(actor) ELSE authorize({"teacher"}, actor)

\* validateCode: title (trimmed) not empty, code not empty, language in the list.
validateCode(body) ==
  /\ body.title # ""
  /\ body.code # ""
  /\ body.language \in Languages

\* The validators of POST /codes/:codeId/feedback, as they would be without
\* the range of the grade.
validateFeedbackNoRange(comment, grade) == comment # ""

\* The validators of POST /codes/:codeId/feedback: comment not empty; grade,
\* when sent, an integer in 0..100.
validateFeedback(comment, grade) ==
  /\ comment # ""
  /\ grade # Undefined => (grade[1] \in Int /\ grade[1] >= 0 /\ grade[1] <= 100)

\* isEmail, on the sample addresses of the model.
isEmail(email) == email \in {"alice@example.com", "bob@example.com", "admin@codespace.com"}

\* The validators of POST /users.
validateUser(input) ==
  /\ Len(input.username) >= 3
  /\ isEmail(input.email)
  /\ Len(input.password) >= 6

----------------------------------------------------------------------------
\* JavaScript truthiness of the values the handlers test with || and ?:.

\* A string or undefined: undefined and "" are falsy.
TruthyString(v) == v # Undefined /\ v[1] # ""

\* An array or undefined: every array, the empty one too, is truthy.
TruthyArray(v) == v # Undefined

\* A number or null: null and 0 are falsy.
TruthyNumber(v) == v # Undefined /\ v[1] # 0

----------------------------------------------------------------------------
\* The Code model.

\* Code.create as it would be if it took the owner from the body when the
\* body names one.
NewCodeClientOwner(owner, body) ==
  [user |-> IF body.user # Undefined THEN body.user[1] ELSE owner,
   title |-> body.title, description |-> body.description,
   language |-> body.language, code |-> body.code,
   tags |-> IF body.tags = Undefined THEN <<>> ELSE body.tags[1],
   status |-> "submitted", analysis |-> Undefined, feedback |-> Undefined,
   __v |-> 0]

\* Code.create as it would be if it were handed the whole body.
NewCodeWholeBody(owner, body) ==
  [user |-> owner, title |-> body.title, description |-> body.description,
   language |-> body.language, code |-> body.code,
   tags |-> IF body.tags = Undefined THEN <<>> ELSE body.tags[1],
   status |-> IF body.status # Undefined THEN body.status[1] ELSE "submitted",
   analysis |-> body.analysis, feedback |-> body.feedback, __v |-> 0]

\* Code.create({user, title, description, language, code, tags}) with the
\* schema defaults: status submitted, tags [], no analysis, no feedback.  The
\* handler takes the five fields out of the body and nothing else.
NewCode(owner, body) ==
  [user |-> owner, title |-> body.title, description |-> body.description,
   language |-> body.language, code |-> body.code,
   tags |-> IF body.tags = Undefined THEN <<>> ELSE body.tags[1],
   status |-> "submitted", analysis |-> Undefined, feedback |-> Undefined,
   __v |-> 0]

\* codeSchema.methods.addAnalysis, up to its save.
addAnalysis(doc, analysisResult) ==
  [doc EXCEPT !.analysis = Some([result |-> analysisResult]),
              !.status = "analyzed"]

\* addFeedback as it would be if it merged the new feedback into the old one:
\* a call without a grade keeps the grade that is stored.
addFeedbackMerge(doc, teacherId, comment, grade) ==
  LET kept == IF grade = Undefined /\ doc.feedback # Undefined
              THEN doc.feedback[1].grade ELSE grade
  IN [doc EXCEPT
        !.feedback = Some([teacher |-> teacherId, comment |-> comment, grade |-> kept]),
        !.status = IF TruthyNumber(kept) THEN "graded" ELSE "reviewed"]

\* codeSchema.methods.addFeedback, up to its save.  The parameter default
\* turns an omitted grade into null; null and undefined are both Undefined here.
addFeedback(doc, teacherId, comment, grade) ==
  [doc EXCEPT
     !.feedback = Some([teacher |-> teacherId, comment |-> comment, grade |-> grade]),
     !.status = IF TruthyNumber(grade) THEN "graded" ELSE "reviewed"]

\* The validators of codeSchema that Code.create and save() run: required
\* title, code and language, the two maxlength, the two enum, and min and max
\* of feedback.grade.
codeSchema(doc) ==
  /\ doc.title # "" /\ Len(doc.title) <= TitleMax
  /\ doc.description # Undefined => Len(doc.description[1]) <= DescriptionMax
  /\ doc.language \in Languages
  /\ doc.code # ""
  /\ doc.status \in Statuses
  /\ (doc.feedback # Undefined /\ doc.feedback[1].grade # Undefined) =>
       (doc.feedback[1].grade[1] >= 0 /\ doc.feedback[1].grade[1] <= 100)

\* The field updates of PUT /:id as they would be without the status reset.
EditFieldsKeepStatus(doc, body) ==
  [doc EXCEPT
     !.title = body.title,
     !.description = IF TruthyString(body.description) THEN body.description
                     ELSE doc.description,
     !.language = body.language,
     !.code = body.code,
     !.tags = IF TruthyArray(body.tags) THEN body.tags[1] ELSE doc.tags,
     !.analysis = Undefined]

\* The field updates of PUT /:id, up to the save.
EditFields(doc, body) ==
  [doc EXCEPT
     !.title = body.title,
     !.description = IF TruthyString(body.description) THEN body.description
                     ELSE doc.description,
     !.language = body.language,
     !.code = body.code,
     !.tags = IF TruthyArray(body.tags) THEN body.tags[1] ELSE doc.tags,
     !.status = "submitted",
     !.analysis = Undefined]

\* document.save() of a loaded document that sets an array (tags) anew:
\* Mongoose asks for the version it loaded, and the update matches no
\* document when the stored version has moved on (VersionError).
versionError(stored, loaded, changed) ==
  changed.tags # loaded.tags /\ stored.__v # loaded.__v

\* document.save() of a loaded document: Mongoose sends the paths whose value
\* differs from the loaded one, and the paths in always (nested paths that
\* were assigned); the stored document keeps every other path.  A save that
\* sets the tags anew increments the version.
SavedDoc(stored, loaded, changed, always) ==
  [f \in DOMAIN stored |->
     IF f = "__v"
     THEN IF changed.tags # loaded.tags THEN stored.__v + 1 ELSE stored.__v
     ELSE IF f \in always \/ changed[f] # loaded[f] THEN changed[f] ELSE stored[f]]

\* Ownership checks of the /api/code routes.
IsOwner(doc, actor) == doc.user = actor

\* GET /:id, as it would be with the ownership check left out.
CanReadAnyone(doc, actor, role) == TRUE

\* GET /:id: the owner or a teacher.
CanRead(doc, actor, role) == IsOwner(doc, actor) \/ role = "teacher"

\* PUT /:id, as it would be with the teacher exemption of GET and DELETE.
CanUpdateOrTeacher(doc, actor, role) == IsOwner(doc, actor) \/ role = "teacher"

\* PUT /:id: the owner only.
CanUpdate(doc, actor, role) == IsOwner(doc, actor)

\* DELETE /:id: the owner or a teacher.
CanDelete(doc, actor, role) == IsOwner(doc, actor) \/ role = "teacher"

\* POST /:id/analyze, as it would be with the teacher exemption of GET and
\* DELETE.
CanAnalyzeOrTeacher(doc, actor, role) == IsOwner(doc, actor) \/ role = "teacher"

\* POST /:id/analyze: the owner only.
CanAnalyze(doc, actor, role) == IsOwner(doc, actor)

\* DELETE /users/:userId, as it would be without the teacher check.
DeletableAny(user) == TRUE

\* DELETE /users/:userId: teacher accounts are refused.
Deletable(user) == user.role # "teacher"

\* User.findOne({ $or: [{ email }, { username }] }): the users it may return.
existingUsers(input) ==
  {u \in DOMAIN users :
     users[u].email = input.email \/ users[u].username = input.username}

\* The error of POST /users for the user that findOne returned.
conflict(existingUser, input) ==
  IF existingUser.email = input.email THEN "Email already exists"
  ELSE "Username already taken"

\* User.create as it would be if it took the role that the body names.
NewUserClientRole(input) ==
  [username |-> input.username, email |-> input.email,
   role |-> IF input.role # Undefined THEN input.role[1] ELSE "student"]

\* User.create({ username, email, password, role: 'student' }): the handler
\* takes the three fields out of the body and sets the role itself.
NewUser(input) ==
  [username |-> input.username, email |-> input.email, role |-> "student"]

\* The users collection as it would be without its unique indexes.
duplicateKeyNever(input) == FALSE

\* The unique indexes on username and on email of the users collection: an
\* insert that repeats either fails with a duplicate key error.
duplicateKey(input) ==
  \E u \in DOMAIN users :
    users[u].username = input.username \/ users[u].email = input.email

\* RegExp(pattern, 'i').test(text), on the sample strings of the model: the
\* search is handed to $regex as a pattern, in which "." stands for any
\* character.
regexTest(pattern, text) ==
  \/ pattern = "." /\ text # ""
  \/ <<pattern, text>> \in {<<"T1", "t1">>, <<"AL", "alice">>,
                            <<"AL", "alice@example.com">>}

\* The filter of GET / : the submissions of the actor that match the
\* language, the status and the search that were sent.
codeQuery(owner, q) ==
  {c \in DOMAIN codes :
     /\ codes[c].user = owner
     /\ TruthyString(q.language) => codes[c].language = q.language[1]
     /\ TruthyString(q.status) => codes[c].status = q.status[1]
     /\ TruthyString(q.search) =>
          \/ regexTest(q.search[1], codes[c].title)
          \/ /\ codes[c].description # Undefined
             /\ regexTest(q.search[1], codes[c].description[1])}

\* The filter of GET /students/:studentId/codes: language and status only.
studentCodeQuery(student, q) == codeQuery(student, [q EXCEPT !.search = Undefined])

\* The filter of GET /students: the students whose username or email match
\* the search.
studentQuery(q) ==
  {u \in DOMAIN users :
     /\ users[u].role = "student"
     /\ TruthyString(q.search) =>
          \/ regexTest(q.search[1], users[u].username)
          \/ regexTest(q.search[1], users[u].email)}

\* sort({ createdAt: -1 }): the ids grow with the time of creation.  The
\* students are listed by lastActive, which the model does not keep; the
\* same order stands for it.
RECURSIVE sortDescending(_)
sortDescending(ids) ==
  IF ids = {} THEN <<>>
  ELSE LET last == CHOOSE x \in ids : \A y \in ids : y <= x
       IN <<last>> \o sortDescending(ids \ {last})

\* .limit(limit * 1).skip((page - 1) * limit) as it would be with
\* .skip(page * limit).
skipLimitFromZero(sorted, page, limit) ==
  [i \in 1..(IF Len(sorted) - page * limit < 0 THEN 0
             ELSE IF Len(sorted) - page * limit < limit
                  THEN Len(sorted) - page * limit ELSE limit) |->
     sorted[page * limit + i]]

\* .limit(limit * 1).skip((page - 1) * limit): the documents after the
\* first (page - 1) * limit, limit of them at most.
skipLimit(sorted, page, limit) ==
  LET skip == (page - 1) * limit
      left == IF Len(sorted) - skip < 0 THEN 0 ELSE Len(sorted) - skip
  IN [i \in 1..(IF left < limit THEN left ELSE limit) |-> sorted[skip + i]]

\* Math.ceil(total / limit)
totalPages(total, limit) == (total + limit - 1) \div limit

\* The response of a listing: the page, total and totalPages.
listing(matching, q) ==
  [NoRes EXCEPT
     !.items = skipLimit(sortDescending(matching), q.page, q.limit),
     !.total = Cardinality(matching),
     !.totalPages = totalPages(Cardinality(matching), q.limit)]

\* { $group: { _id: '$language', count: { $sum: 1 } } }
languageGroups ==
  {[_id |-> l, count |-> Cardinality({c \in DOMAIN codes : codes[c].language = l})] :
     l \in {codes[c].language : c \in DOMAIN codes}}

\* The orders in which a pipeline without $sort may return the groups.
unsorted(groups) ==
  {stats \in [1..Cardinality(groups) -> groups] :
     \A i, j \in DOMAIN stats : i # j => stats[i] # stats[j]}

\* { $sort: { count: -1 } }: the groups by count, the largest first; groups
\* of equal count come in an order that the database chooses.
sortByCount(groups) ==
  {stats \in [1..Cardinality(groups) -> groups] :
     /\ \A i, j \in DOMAIN stats : i # j => stats[i] # stats[j]
     /\ \A i, j \in DOMAIN stats : i < j => stats[i].count >= stats[j].count}

\* { $match: { 'feedback.grade': { $exists: true } } }: the submissions whose
\* feedback.grade is stored.  addFeedback stores the grade with every
\* feedback, as null when the request sent none, and $exists matches a
\* stored null.
gradeMatch == {c \in DOMAIN codes : codes[c].feedback # Undefined}

\* The values that $avg, $min and $max take in: the numbers; null is passed over.
numericGrades(matched) ==
  {c \in matched : codes[c].feedback[1].grade # Undefined}

RECURSIVE sumGrades(_)
sumGrades(cs) ==
  IF cs = {} THEN 0
  ELSE LET c == CHOOSE x \in cs : TRUE
       IN codes[c].feedback[1].grade[1] + sumGrades(cs \ {c})

\* { $group: { _id: null, avgGrade: { $avg }, minGrade: { $min }, maxGrade:
\* { $max } } }: no group when nothing matched, else one group; an
\* accumulator that took in no number gives null.
gradeGroup(matched) ==
  LET nums == numericGrades(matched)
      grades == {codes[c].feedback[1].grade[1] : c \in nums}
  IN IF matched = {} THEN <<>>
     ELSE IF nums = {}
     THEN <<[avgGrade |-> Undefined, minGrade |-> Undefined, maxGrade |-> Undefined]>>
     ELSE <<[avgGrade |-> Some(<<sumGrades(nums), Cardinality(nums)>>),
             minGrade |-> Some(CHOOSE g \in grades : \A h \in grades : g <= h),
             maxGrade |-> Some(CHOOSE g \in grades : \A h \in grades : g >= h)]>>

\* gradeStats[0] || { avgGrade: 0, minGrade: 0, maxGrade: 0 }
gradeStatsOrZero(groups) ==
  IF groups = <<>>
  THEN [avgGrade |-> Some(<<0, 1>>), minGrade |-> Some(0), maxGrade |-> Some(0)]
  ELSE groups[1]

\* The statistics of GET /dashboard, with languageStats in the order stats.
\* (activeToday and recentSubmissions are not kept.)
dashboard(stats) ==
  [NoRes EXCEPT
     !.totalStudents = Cardinality({u \in DOMAIN users : users[u].role = "student"}),
     !.totalSubmissions = Cardinality(DOMAIN codes),
     !.languageStats = stats,
     !.gradeStats = gradeStatsOrZero(gradeGroup(gradeMatch))]

\* Code.deleteMany({ user }) as it would be if it matched no submission.
deleteManyNone(owner) == codes

\* Code.deleteMany({ user: owner }).
deleteMany(owner) ==
  [c \in {d \in DOMAIN codes : codes[d].user # owner} |-> codes[c]]

----------------------------------------------------------------------------
\* Requests.

Actors == DOMAIN users \cup {Anon}

RoleOf(actor) == IF actor \in DOMAIN users THEN users[actor].role ELSE ""

InFlight(op) ==
  Cardinality({t \in Slots : reqs[t].op = op /\ reqs[t].pc \notin {"idle", "done"}})

\* A handled request: what was asked (op, actor, id, body), how the AI call
\* ended if one was made, and the status answered.  The loaded document and
\* the other inputs are dropped with the handler's frame.
Answered(r, status) ==
  [Idle EXCEPT !.op = r.op, !.actor = r.actor, !.role = r.role, !.id = r.id,
               !.body = r.body, !.ai = r.ai, !.pc = "done", !.status = status]

\* res.status(status).json(...): the handler of slot s ends.
Reply(s, status) == reqs' = [reqs EXCEPT ![s] = Answered(reqs[s], status)]

\* res.status(status).json({ error }).
ReplyError(s, status, error) ==
  reqs' = [reqs EXCEPT ![s] = [Answered(reqs[s], status) EXCEPT !.error = error]]

\* res.json({ success: true, ... }) of a listing or of the dashboard; the
\* query stays with the answer.
ReplyList(s, res) ==
  reqs' = [reqs EXCEPT ![s] =
             [Answered(reqs[s], 200) EXCEPT !.query = reqs[s].query, !.res = res]]

\* A request enters slot s: the response is sent at once when early # 0 (a
\* middleware or the validation refused it), else the handler goes on at pc.
Enter(s, r, early, pc) ==
  /\ reqs[s].pc = "idle"
  /\ reqs' = [reqs EXCEPT ![s] =
       IF early # 0 THEN Answered(r, early)
       ELSE [r EXCEPT !.pc = pc]]


Goto(s, pc) == reqs' = [reqs EXCEPT ![s].pc = pc]

Load(s, doc, pc) == reqs' = [reqs EXCEPT ![s].pc = pc, ![s].doc = doc]

\* protect, then the validation of the route, for the /api/code routes.
CodeGate(actor, valid) ==
  IF protect(actor) # 0 THEN protect(actor) ELSE IF valid THEN 0 ELSE 400

\* router.use(protect, authorize('teacher')), then the validation of the route.
AdminRouteGate(actor, valid) ==
  IF AdminGate(actor) # 0 THEN AdminGate(actor) ELSE IF valid THEN 0 ELSE 400

\* code.save() of slot s: the stored document takes the modified paths; a
\* document that fails the validators of the schema, that was deleted since
\* it was loaded, or whose version has moved on under a save that sets the
\* tags, makes save() throw (500).
Save(s, changed, always) ==
  LET r == reqs[s] IN
  IF /\ r.id \in DOMAIN codes
     /\ codeSchema(changed)
     /\ ~versionError(codes[r.id], r.doc, changed)
  THEN /\ codes' = [codes EXCEPT ![r.id] = SavedDoc(codes[r.id], r.doc, changed, always)]
       /\ Reply(s, 200)
  ELSE /\ codes' = codes
       /\ Reply(s, 500)

\* The handler of slot s ends with status, having learnt how the AI call ended.
ReplyAi(s, outcome, status) ==
  reqs' = [reqs EXCEPT ![s] = Answered([reqs[s] EXCEPT !.ai = outcome], status)]

----------------------------------------------------------------------------
\* POST /api/code

ReqCreateCode(s, free, actors, bodies) ==
  /\ free
  /\ nextCodeId + InFlight("createCode") <= MaxCodes
  /\ \E actor \in actors, body \in bodies :
       Enter(s, [Idle EXCEPT !.op = "createCode", !.actor = actor,
                             !.role = RoleOf(actor), !.body = body],
             CodeGate(actor, validateCode(body)), "create")
  /\ UNCHANGED <<users, codes, nextUserId, nextCodeId>>

\* Code.create: the document is inserted, or it fails the validators of the
\* schema and the catch block answers 500.
CreateInsert(s) ==
  /\ reqs[s].op = "createCode" /\ reqs[s].pc = "create"
  /\ IF codeSchema(NewCode(reqs[s].actor, reqs[s].body))
     THEN /\ codes' = codes @@ (nextCodeId :> NewCode(reqs[s].actor, reqs[s].body))
          /\ nextCodeId' = nextCodeId + 1
          /\ Reply(s, 201)
     ELSE /\ UNCHANGED <<codes, nextCodeId>>
          /\ Reply(s, 500)
  /\ UNCHANGED <<users, nextUserId>>

----------------------------------------------------------------------------
\* GET /api/code

ReqListCodes(s, free, actors, queries) ==
  /\ free
  /\ \E actor \in actors, q \in queries :
       Enter(s, [Idle EXCEPT !.op = "listCodes", !.actor = actor,
                             !.role = RoleOf(actor), !.query = q],
             CodeGate(actor, TRUE), "read")
  /\ UNCHANGED <<users, codes, nextUserId, nextCodeId>>

\* Code.find(query) sorted, limited and skipped, and Code.countDocuments(query).
ListCodes(s) ==
  LET r == reqs[s] IN
  /\ r.op = "listCodes" /\ r.pc = "read"
  /\ ReplyList(s, listing(codeQuery(r.actor, r.query), r.query))
  /\ UNCHANGED <<users, codes, nextUserId, nextCodeId>>

----------------------------------------------------------------------------
\* GET /api/code/:id

ReqGetCode(s, free, actors, ids) ==
  /\ free
  /\ \E actor \in actors, id \in ids :
       Enter(s, [Idle EXCEPT !.op = "getCode", !.actor = actor,
                             !.role = RoleOf(actor), !.id = id],
             CodeGate(actor, TRUE), "find")
  /\ UNCHANGED <<users, codes, nextUserId, nextCodeId>>

\* findById with populate('user'): an id that is no ObjectId makes it throw
\* (the catch block answers 500, in this handler as in the others); a
\* submission whose owner is gone is populated with null, and reading
\* code.user._id throws (500).
GetFind(s) ==
  LET r == reqs[s] IN
  /\ r.op = "getCode" /\ r.pc = "find"
  /\ IF r.id = Malformed THEN Reply(s, 500)
     ELSE IF r.id \notin DOMAIN codes THEN Reply(s, 404)
     ELSE IF codes[r.id].user \notin DOMAIN users THEN Reply(s, 500)
     ELSE IF ~CanRead(codes[r.id], r.actor, r.role) THEN Reply(s, 403)
     ELSE Reply(s, 200)
  /\ UNCHANGED <<users, codes, nextUserId, nextCodeId>>

----------------------------------------------------------------------------
\* PUT /api/code/:id

ReqUpdateCode(s, free, actors, ids, bodies) ==
  /\ free
  /\ \E actor \in actors, id \in ids, body \in bodies :
       Enter(s, [Idle EXCEPT !.op = "updateCode", !.actor = actor,
                             !.role = RoleOf(actor), !.id = id, !.body = body],
             CodeGate(actor, validateCode(body)), "find")
  /\ UNCHANGED <<users, codes, nextUserId, nextCodeId>>

UpdateFind(s) ==
  LET r == reqs[s] IN
  /\ r.op = "updateCode" /\ r.pc = "find"
  /\ IF r.id = Malformed THEN Reply(s, 500)
     ELSE IF r.id \notin DOMAIN codes THEN Reply(s, 404)
     ELSE IF ~CanUpdate(codes[r.id], r.actor, r.role) THEN Reply(s, 403)
     ELSE Load(s, codes[r.id], "save")
  /\ UNCHANGED <<users, codes, nextUserId, nextCodeId>>

UpdateSave(s) ==
  LET r == reqs[s] IN
  /\ r.op = "updateCode" /\ r.pc = "save"
  /\ Save(s, EditFields(r.doc, r.body), {"analysis"})
  /\ UNCHANGED <<users, nextUserId, nextCodeId>>

----------------------------------------------------------------------------
\* DELETE /api/code/:id

ReqDeleteCode(s, free, actors, ids) ==
  /\ free
  /\ \E actor \in actors, id \in ids :
       Enter(s, [Idle EXCEPT !.op = "deleteCode", !.actor = actor,
                             !.role = RoleOf(actor), !.id = id],
             CodeGate(actor, TRUE), "find")
  /\ UNCHANGED <<users, codes, nextUserId, nextCodeId>>

DeleteFind(s) ==
  LET r == reqs[s] IN
  /\ r.op = "deleteCode" /\ r.pc = "find"
  /\ IF r.id = Malformed THEN Reply(s, 500)
     ELSE IF r.id \notin DOMAIN codes THEN Reply(s, 404)
     ELSE IF ~CanDelete(codes[r.id], r.actor, r.role) THEN Reply(s, 403)
     ELSE Load(s, codes[r.id], "remove")
  /\ UNCHANGED <<users, codes, nextUserId, nextCodeId>>

\* code.deleteOne(): no error when the document is already gone.
DeleteRemove(s) ==
  LET r == reqs[s] IN
  /\ r.op = "deleteCode" /\ r.pc = "remove"
  /\ codes' = [c \in DOMAIN codes \ {r.id} |-> codes[c]]
  /\ Reply(s, 200)
  /\ UNCHANGED <<users, nextUserId, nextCodeId>>

----------------------------------------------------------------------------
\* POST /api/code/:id/analyze

ReqAnalyze(s, free, actors, ids) ==
  /\ free
  /\ \E actor \in actors, id \in ids :
       Enter(s, [Idle EXCEPT !.op = "analyze", !.actor = actor,
                             !.role = RoleOf(actor), !.id = id],
             CodeGate(actor, TRUE), "find")
  /\ UNCHANGED <<users, codes, nextUserId, nextCodeId>>

\* findById and the ownership check; then axios.post is issued.
AnalyzeFind(s) ==
  LET r == reqs[s] IN
  /\ r.op = "analyze" /\ r.pc = "find"
  /\ IF r.id = Malformed THEN Reply(s, 500)
     ELSE IF r.id \notin DOMAIN codes THEN Reply(s, 404)
     ELSE IF ~CanAnalyze(codes[r.id], r.actor, r.role) THEN Reply(s, 403)
     ELSE Load(s, codes[r.id], "ai")
  /\ UNCHANGED <<users, codes, nextUserId, nextCodeId>>

\* The catch block of the handler, as it would be if it recorded the attempt.
AnalyzeFailedMarks(s, outcome) ==
  /\ codes' = IF reqs[s].id \in DOMAIN codes
              THEN [codes EXCEPT ![reqs[s].id].status = "analyzed"] ELSE codes
  /\ ReplyAi(s, outcome, IF outcome = "ECONNREFUSED" THEN 503 ELSE 500)

\* The catch block of the handler, as it would be if it issued the call
\* again after a timeout.
AnalyzeFailedRetries(s, outcome) ==
  /\ codes' = codes
  /\ IF outcome = "timeout"
     THEN reqs' = [reqs EXCEPT ![s].ai = outcome]
     ELSE ReplyAi(s, outcome, 503)

\* The catch block of the handler: 503 for ECONNREFUSED, else 500.
AnalyzeFailed(s, outcome) ==
  /\ codes' = codes
  /\ ReplyAi(s, outcome, IF outcome = "ECONNREFUSED" THEN 503 ELSE 500)

\* The AI call ends: with a report, which addAnalysis saves, or with an error.
AnalyzeReturn(s) ==
  LET r == reqs[s] IN
  /\ r.op = "analyze" /\ r.pc = "ai"
  /\ \E outcome \in AiOutcomes :
       IF outcome = "ok"
       THEN Save(s, addAnalysis(r.doc, AiReport(r.doc.language, r.doc.code)), {"analysis"})
       ELSE AnalyzeFailed(s, outcome)
  /\ UNCHANGED <<users, nextUserId, nextCodeId>>

----------------------------------------------------------------------------
\* GET /api/admin/dashboard, /students, /students/:studentId/codes

AdminReads == {"dashboard", "students", "studentCodes"}

ReqAdminRead(s, free, actors, ids, queries) ==
  /\ free
  /\ \E actor \in actors, op \in AdminReads, id \in ids, q \in queries :
       Enter(s, [Idle EXCEPT !.op = op, !.actor = actor, !.role = RoleOf(actor),
                             !.id = IF op = "studentCodes" THEN id ELSE 0,
                             !.query = IF op = "dashboard" THEN NoQuery ELSE q],
             AdminRouteGate(actor, TRUE), "read")
  /\ UNCHANGED <<users, codes, nextUserId, nextCodeId>>

\* The queries of the three handlers read the collections and answer 200;
\* a studentId that is no ObjectId makes Code.find throw (500).
AdminRead(s) ==
  LET r == reqs[s] IN
  /\ r.op \in AdminReads /\ r.pc = "read"
  /\ CASE r.op = "dashboard" ->
            \E stats \in sortByCount(languageGroups) : ReplyList(s, dashboard(stats))
       [] r.op = "students" -> ReplyList(s, listing(studentQuery(r.query), r.query))
       [] r.op = "studentCodes" ->
            IF r.id = Malformed THEN Reply(s, 500)
            ELSE ReplyList(s, listing(studentCodeQuery(r.id, r.query), r.query))
  /\ UNCHANGED <<users, codes, nextUserId, nextCodeId>>

----------------------------------------------------------------------------
\* POST /api/admin/codes/:codeId/feedback

ReqFeedback(s, free, actors, ids, inputs) ==
  /\ free
  /\ \E actor \in actors, id \in ids, fb \in inputs :
       Enter(s, [Idle EXCEPT !.op = "feedback", !.actor = actor,
                             !.role = RoleOf(actor), !.id = id,
                             !.comment = fb.comment, !.grade = fb.grade],
             AdminRouteGate(actor, validateFeedback(fb.comment, fb.grade)), "find")
  /\ UNCHANGED <<users, codes, nextUserId, nextCodeId>>

FeedbackFind(s) ==
  LET r == reqs[s] IN
  /\ r.op = "feedback" /\ r.pc = "find"
  /\ IF r.id = Malformed THEN Reply(s, 500)
     ELSE IF r.id \notin DOMAIN codes THEN Reply(s, 404)
     ELSE Load(s, codes[r.id], "save")
  /\ UNCHANGED <<users, codes, nextUserId, nextCodeId>>

FeedbackSave(s) ==
  LET r == reqs[s] IN
  /\ r.op = "feedback" /\ r.pc = "save"
  /\ Save(s, addFeedback(r.doc, r.actor, r.comment, r.grade), {"feedback"})
  /\ UNCHANGED <<users, nextUserId, nextCodeId>>

----------------------------------------------------------------------------
\* POST /api/admin/users

\* There is room for one more account among cap.
UserRoom(cap) == nextUserId + InFlight("createUser") <= cap

ReqCreateUser(s, free, actors, inputs) ==
  /\ free
  /\ \E actor \in actors, input \in inputs :
       Enter(s, [Idle EXCEPT !.op = "createUser", !.actor = actor,
                             !.role = RoleOf(actor), !.newUser = input],
             AdminRouteGate(actor, validateUser(input)), "find")
  /\ UNCHANGED <<users, codes, nextUserId, nextCodeId>>

\* User.findOne({ $or: [{ email }, { username }] }): when several users
\* match, the database returns one of them.
CreateUserFind(s) ==
  LET r == reqs[s] IN
  /\ r.op = "createUser" /\ r.pc = "find"
  /\ IF existingUsers(r.newUser) # {}
     THEN \E u \in existingUsers(r.newUser) :
            ReplyError(s, 400, conflict(users[u], r.newUser))
     ELSE Goto(s, "create")
  /\ UNCHANGED <<users, codes, nextUserId, nextCodeId>>

\* User.create({ username, email, password, role: 'student' }): the user is
\* inserted, or the insert fails on a unique index and the catch block
\* answers 500.
CreateUserInsert(s) ==
  LET r == reqs[s] IN
  /\ r.op = "createUser" /\ r.pc = "create"
  /\ IF duplicateKey(r.newUser)
     THEN /\ UNCHANGED <<users, nextUserId>>
          /\ Reply(s, 500)
     ELSE /\ users' = users @@ (nextUserId :> NewUser(r.newUser))
          /\ nextUserId' = nextUserId + 1
          /\ Reply(s, 201)
  /\ UNCHANGED <<codes, nextCodeId>>

----------------------------------------------------------------------------
\* DELETE /api/admin/users/:userId

ReqDeleteUser(s, free, actors, ids) ==
  /\ free
  /\ \E actor \in actors, id \in ids :
       Enter(s, [Idle EXCEPT !.op = "deleteUser", !.actor = actor,
                             !.role = RoleOf(actor), !.id = id],
             AdminRouteGate(actor, TRUE), "find")
  /\ UNCHANGED <<users, codes, nextUserId, nextCodeId>>

DeleteUserFind(s) ==
  LET r == reqs[s] IN
  /\ r.op = "deleteUser" /\ r.pc = "find"
  /\ IF r.id = Malformed THEN Reply(s, 500)
     ELSE IF r.id \notin DOMAIN users THEN Reply(s, 404)
     ELSE IF ~Deletable(users[r.id]) THEN Reply(s, 403)
     ELSE Goto(s, "codes")
  /\ UNCHANGED <<users, codes, nextUserId, nextCodeId>>

\* await Code.deleteMany({ user: user._id })
DeleteUserCodes(s) ==
  LET r == reqs[s] IN
  /\ r.op = "deleteUser" /\ r.pc = "codes"
  /\ codes' = deleteMany(r.id)
  /\ Goto(s, "user")
  /\ UNCHANGED <<users, nextUserId, nextCodeId>>

\* await user.deleteOne(): the user goes, or the call fails and the catch
\* block answers 500 with the submissions already deleted.
DeleteUserDoc(s) ==
  LET r == reqs[s] IN
  /\ r.op = "deleteUser" /\ r.pc = "user"
  /\ \E failed \in BOOLEAN :
       IF failed
       THEN users' = users /\ Reply(s, 500)
       ELSE /\ users' = [u \in DOMAIN users \ {r.id} |-> users[u]]
            /\ Reply(s, 200)
  /\ UNCHANGED <<codes, nextUserId, nextCodeId>>

----------------------------------------------------------------------------
\* connectDB (config/database.js), called and not awaited by server.js
\* before app.listen: the bootstrap of the default admin runs beside the
\* first requests.  A run occupies a slot; its status is the exit code.

connectDB(s, free) ==
  /\ free
  /\ Enter(s, [Idle EXCEPT !.op = "connectDB"], 0, "find")
  /\ UNCHANGED <<users, codes, nextUserId, nextCodeId>>

\* const adminExists = await User.findOne({ email: 'admin@codespace.com' })
AdminFind(s) ==
  /\ reqs[s].op = "connectDB" /\ reqs[s].pc = "find"
  /\ IF \E u \in DOMAIN users : users[u].email = AdminUser.email
     THEN Reply(s, 0)
     ELSE Goto(s, "save")
  /\ UNCHANGED <<users, codes, nextUserId, nextCodeId>>

\* await admin.save(): the admin is inserted, or the insert fails on a unique
\* index and the catch block ends the process with process.exit(1).
AdminSave(s) ==
  /\ reqs[s].op = "connectDB" /\ reqs[s].pc = "save"
  /\ IF duplicateKey(AdminUser)
     THEN /\ UNCHANGED <<users, nextUserId>>
          /\ Reply(s, 1)
     ELSE /\ users' = users @@ (nextUserId :> AdminUser)
          /\ nextUserId' = nextUserId + 1
          /\ Reply(s, 0)
  /\ UNCHANGED <<codes, nextCodeId>>

\* The account that registration creates: the role is the one the body
\* names, student when it names none.
RegisteredUser(input) ==
  [username |-> input.username, email |-> input.email,
   role |-> IF input.role = Undefined THEN "student" ELSE input.role[1]]

\* POST /api/auth/register: an account with a free username and a free email
\* is created.
register(free, inputs) ==
  /\ free
  /\ \E input \in inputs :
       /\ ~duplicateKey(input)
       /\ users' = users @@ (nextUserId :> RegisteredUser(input))
  /\ nextUserId' = nextUserId + 1
  /\ UNCHANGED <<codes, nextCodeId, reqs>>

----------------------------------------------------------------------------
\* The response is sent and the slot is free again.
Respond(s) ==
  /\ reqs[s].pc = "done"
  /\ reqs' = [reqs EXCEPT ![s] = Idle]
  /\ UNCHANGED <<users, codes, nextUserId, nextCodeId>>

\* One request at a time: a request arrives when no other is being handled.
Serial(s) == s = 1 /\ \A t \in Slots : reqs[t].pc = "idle"

\* One request at a time, the answers staying in their slots until they are
\* read: a request arrives in the first free slot when no handler is running.
OneAtATime(s) ==
  /\ reqs[s].pc = "idle"
  /\ \A t \in Slots : t < s => reqs[t].pc # "idle"
  /\ \A t \in Slots : reqs[t].pc \in {"idle", "done"}

\* Concurrent requests: a request arrives in the first free slot.
FirstFree(s) == reqs[s].pc = "idle" /\ \A t \in Slots : t < s => reqs[t].pc # "idle"

Step(s) ==
  \/ CreateInsert(s)
  \/ GetFind(s)
  \/ UpdateFind(s)
  \/ UpdateSave(s)
  \/ DeleteFind(s)
  \/ DeleteRemove(s)
  \/ AnalyzeFind(s)
  \/ AnalyzeReturn(s)
  \/ AdminRead(s)
  \/ FeedbackFind(s)
  \/ FeedbackSave(s)
  \/ CreateUserFind(s)
  \/ CreateUserInsert(s)
  \/ DeleteUserFind(s)
  \/ DeleteUserCodes(s)
  \/ DeleteUserDoc(s)
  \/ Respond(s)

\* Every request, from every actor, with every input of the model, one
\* request at a time.
Next ==
  \E s \in Slots :
    \/ ReqCreateCode(s, Serial(s), Actors, CreateBodies)
    \/ ReqGetCode(s, Serial(s), Actors, CodeIds)
    \/ ReqUpdateCode(s, Serial(s), Actors, CodeIds, UpdateBodies)
    \/ ReqDeleteCode(s, Serial(s), Actors, CodeIds)
    \/ ReqAnalyze(s, Serial(s), Actors, CodeIds)
    \/ ReqAdminRead(s, Serial(s), Actors, UserIds, {NoQuery})
    \/ ReqFeedback(s, Serial(s), Actors, CodeIds, FeedbackInputs)
    \/ ReqCreateUser(s, Serial(s) /\ UserRoom(MaxUsers), Actors, UserInputs)
    \/ ReqDeleteUser(s, Serial(s), Actors, UserIds)
    \/ Step(s)

Spec == Init /\ [][Next]_vars

\* The cascading delete among concurrent requests: authenticated users create
\* submissions while teachers create and delete users.
NextCascade ==
  \E s \in Slots :
    \/ ReqCreateCode(s, FirstFree(s), DOMAIN users, {FullBody})
    \/ ReqCreateUser(s, FirstFree(s) /\ UserRoom(MaxUsers), DOMAIN users, UserInputs)
    \/ ReqDeleteUser(s, FirstFree(s), DOMAIN users, UserIds)
    \/ CreateInsert(s)
    \/ CreateUserFind(s)
    \/ CreateUserInsert(s)
    \/ DeleteUserFind(s)
    \/ DeleteUserCodes(s)
    \/ DeleteUserDoc(s)
    \/ Respond(s)

SpecCascade == Init /\ [][NextCascade]_vars

\* The identity store among concurrent requests: teachers create accounts
\* that clash with one another.
NextUsers ==
  \E s \in Slots :
    \/ ReqCreateUser(s, FirstFree(s) /\ UserRoom(MaxAccounts), DOMAIN users,
                     ConflictInputs)
    \/ CreateUserFind(s)
    \/ CreateUserInsert(s)
    \/ Respond(s)

SpecUsers == Init /\ [][NextUsers]_vars

\* The submission store in front of bodies that break the rules: create,
\* update and delete requests, one at a time.
NextRules ==
  \E s \in Slots :
    \/ ReqCreateCode(s, Serial(s), Actors, RuleBodies)
    \/ ReqUpdateCode(s, Serial(s), Actors, CodeIds, RuleBodies)
    \/ ReqDeleteCode(s, Serial(s), Actors, CodeIds)
    \/ CreateInsert(s)
    \/ UpdateFind(s)
    \/ UpdateSave(s)
    \/ DeleteFind(s)
    \/ DeleteRemove(s)
    \/ Respond(s)

SpecRules == Init /\ [][NextRules]_vars

\* The routes that take a resource identifier, with identifiers that are no
\* ObjectId among the inputs; one request at a time.
NextIds ==
  \E s \in Slots :
    \/ ReqCreateCode(s, Serial(s), Actors, {FullBody})
    \/ ReqGetCode(s, Serial(s), Actors, CodeIds \cup {Malformed})
    \/ ReqUpdateCode(s, Serial(s), Actors, CodeIds \cup {Malformed}, {BareBody})
    \/ ReqDeleteCode(s, Serial(s), Actors, CodeIds \cup {Malformed})
    \/ ReqAnalyze(s, Serial(s), Actors, CodeIds \cup {Malformed})
    \/ ReqFeedback(s, Serial(s), Actors, CodeIds \cup {Malformed},
                   {[comment |-> "ok", grade |-> Some(85)]})
    \/ ReqCreateUser(s, Serial(s) /\ UserRoom(MaxUsers), Actors, UserInputs)
    \/ ReqDeleteUser(s, Serial(s), Actors, UserIds \cup {Malformed})
    \/ CreateInsert(s)
    \/ GetFind(s)
    \/ UpdateFind(s)
    \/ UpdateSave(s)
    \/ DeleteFind(s)
    \/ DeleteRemove(s)
    \/ AnalyzeFind(s)
    \/ AnalyzeReturn(s)
    \/ FeedbackFind(s)
    \/ FeedbackSave(s)
    \/ CreateUserFind(s)
    \/ CreateUserInsert(s)
    \/ DeleteUserFind(s)
    \/ DeleteUserCodes(s)
    \/ DeleteUserDoc(s)
    \/ Respond(s)

SpecIds == Init /\ [][NextIds]_vars

\* The listings, over every store of InitReads: one request at a time.
NextReads ==
  \E s \in Slots :
    \/ ReqListCodes(s, Serial(s), Actors, PageQueries \cup FilterQueries)
    \/ ReqAdminRead(s, Serial(s), Actors, DOMAIN users \cup {Malformed},
                    PageQueries \cup FilterQueries)
    \/ ListCodes(s)
    \/ AdminRead(s)
    \/ Respond(s)

SpecReads == InitReads /\ [][NextReads]_vars

\* The admin, a student, and up to MaxListed submissions of the student
\* that have no feedback yet.
InitGrades ==
  /\ users = (1 :> AdminUser) @@ (2 :> Student(2))
  /\ \E n \in 0..MaxListed : codes = [c \in 1..n |-> NewCode(2, BareBody)]
  /\ nextUserId = 3
  /\ nextCodeId = Len(codes) + 1
  /\ reqs = [s \in Slots |-> Idle]

\* The accounts that teachers create, with and without a role in the body,
\* among concurrent requests.
NextRoles ==
  \E s \in Slots :
    \/ ReqCreateUser(s, FirstFree(s) /\ UserRoom(MaxAccounts), Actors, RoleInputs)
    \/ CreateUserFind(s)
    \/ CreateUserInsert(s)
    \/ Respond(s)

SpecRoles == Init /\ [][NextRoles]_vars

\* Two teachers, a student and a submission of the student, analysed or not.
InitFeedback ==
  /\ users = (1 :> AdminUser) @@ (2 :> Student(2)) @@ (3 :> Teacher(3))
  /\ \E doc \in {NewCode(2, BareBody),
                  addAnalysis(NewCode(2, BareBody), AiReport("python", "c2"))} :
       codes = (1 :> doc)
  /\ nextUserId = 4
  /\ nextCodeId = 2
  /\ reqs = [s \in Slots |-> Idle]

\* Feedback after feedback: the first teacher grades, the second one comments
\* with another grade or with none; the calls follow one another.
NextFeedback ==
  \E s \in Slots :
    \/ ReqFeedback(s, OneAtATime(s), {1}, DOMAIN codes, FirstFeedback)
    \/ ReqFeedback(s, OneAtATime(s), {3}, DOMAIN codes, SecondFeedback)
    \/ FeedbackFind(s)
    \/ FeedbackSave(s)
    \/ Respond(s)

SpecFeedback == InitFeedback /\ [][NextFeedback]_vars

\* The admin, a student and a submission of the student.
InitRace ==
  /\ users = (1 :> AdminUser) @@ (2 :> Student(2))
  /\ codes = (1 :> NewCode(2, BareBody))
  /\ nextUserId = 3
  /\ nextCodeId = 2
  /\ reqs = [s \in Slots |-> Idle]

\* One submission among concurrent requests: its owner edits it and has it
\* analysed while the teacher gives feedback on it.
NextRace ==
  \E s \in Slots :
    \/ ReqUpdateCode(s, FirstFree(s), {2}, DOMAIN codes, {FullBody, BareBody})
    \/ ReqAnalyze(s, FirstFree(s), {2}, DOMAIN codes)
    \/ ReqFeedback(s, FirstFree(s), {1}, DOMAIN codes, FirstFeedback)
    \/ UpdateFind(s)
    \/ UpdateSave(s)
    \/ AnalyzeFind(s)
    \/ AnalyzeReturn(s)
    \/ FeedbackFind(s)
    \/ FeedbackSave(s)
    \/ Respond(s)

SpecRace == InitRace /\ [][NextRace]_vars

\* No submission has been saved with new tags MaxVersion times yet.
VersionRoom == \A c \in DOMAIN codes : codes[c].__v < MaxVersion

\* The admin, a student, and a submission of the student with a description
\* and a tag.
InitEdits ==
  /\ users = (1 :> AdminUser) @@ (2 :> Student(2))
  /\ codes = (1 :> NewCode(2, FullBody))
  /\ nextUserId = 3
  /\ nextCodeId = 2
  /\ reqs = [s \in Slots |-> Idle]

\* Edits and reads of one submission, one at a time; the bodies fill or
\* clear the description and the tags, or leave them out.
NextEdits ==
  \E s \in Slots :
    \/ ReqUpdateCode(s, Serial(s) /\ VersionRoom, Actors, DOMAIN codes,
                     {FullBody, BareBody, ClearBody})
    \/ ReqGetCode(s, Serial(s), Actors, DOMAIN codes)
    \/ GetFind(s)
    \/ UpdateFind(s)
    \/ UpdateSave(s)
    \/ Respond(s)

SpecEdits == InitEdits /\ [][NextEdits]_vars

\* Analyses among concurrent requests: every actor asks for the analysis of
\* the stored submission and of one that does not exist, while the owner
\* deletes the submission.
NextAnalyze ==
  \E s \in Slots :
    \/ ReqAnalyze(s, FirstFree(s), Actors, CodeIds \cup {nextCodeId})
    \/ ReqDeleteCode(s, FirstFree(s), {2}, DOMAIN codes)
    \/ AnalyzeFind(s)
    \/ AnalyzeReturn(s)
    \/ DeleteFind(s)
    \/ DeleteRemove(s)
    \/ Respond(s)

\* The event loop runs the continuation of every await whose promise has
\* settled, and the promise of axios.post settles: with a response, with a
\* connection error, or with the timeout of 120000 ms.
FairAnalyze ==
  \A s \in Slots : WF_vars(AnalyzeFind(s)) /\ WF_vars(AnalyzeReturn(s))

SpecAnalyze == InitRace /\ [][NextAnalyze]_vars /\ FairAnalyze

\* A server process takes requests: one has called connectDB, which
\* app.listen follows at once, or one has left accounts behind.
Listening == (\E s \in Slots : reqs[s].op = "connectDB") \/ DOMAIN users # {}

\* A database that no process has started on yet.
InitBoot ==
  /\ users = << >>
  /\ codes = << >>
  /\ nextUserId = 1
  /\ nextCodeId = 1
  /\ reqs = [s \in Slots |-> Idle]

\* Startups, one after or beside the other, and the registrations that the
\* server takes meanwhile.
NextBoot ==
  \E s \in Slots :
    \/ connectDB(s, FirstFree(s))
    \/ AdminFind(s)
    \/ AdminSave(s)
    \/ register(Listening /\ UserRoom(MaxAccounts), RegisterInputs)
    \/ Respond(s)

SpecBoot == InitBoot /\ [][NextBoot]_vars

\* The grade statistics: teachers give feedback on the stored submissions
\* and read the dashboard, one request at a time.
NextGrades ==
  \E s \in Slots :
    \/ ReqFeedback(s, Serial(s), Actors, DOMAIN codes, GradeInputs)
    \/ ReqAdminRead(s, Serial(s), Actors, DOMAIN users, {NoQuery})
    \/ FeedbackFind(s)
    \/ FeedbackSave(s)
    \/ AdminRead(s)
    \/ Respond(s)

SpecGrades == InitGrades /\ [][NextGrades]_vars

----------------------------------------------------------------------------
\* Vocabulary of the properties.

\* The request of slot s took a step.
Stepped(s) == reqs'[s] # reqs[s]

\* The step of slot s sent the response of its request.
Answers(s) == reqs[s].pc # "done" /\ reqs'[s].pc = "done"

\* Requests that name a submission.
CodeOps == {"getCode", "updateCode", "deleteCode", "analyze", "feedback"}

AdminOps == AdminReads \cup {"feedback", "createUser", "deleteUser"}

\* r is a request on an existing submission of another, existing user.
OnForeignCode(r) ==
  /\ r.op \in CodeOps
  /\ r.id \in DOMAIN codes
  /\ codes[r.id].user # r.actor
  /\ codes[r.id].user \in DOMAIN users

\* The fields of a submission a teacher's feedback does not touch.
Content(doc) ==
  <<doc.user, doc.title, doc.description, doc.language, doc.code, doc.tags, doc.analysis>>

----------------------------------------------------------------------------
\* C1: a request (read, update, delete, analyze, feedback) of a student on a
\* submission of another user is answered 403 and changes neither collection.
C1_StudentDenied403 ==
  [][\A s \in Slots :
       (Stepped(s) /\ reqs'[s].role = "student" /\ OnForeignCode(reqs'[s])) =>
         /\ UNCHANGED <<users, codes>>
         /\ Answers(s) => reqs'[s].status = 403]_vars

\* C1 as amended: the same, except that an update whose body fails the
\* validation is answered 400, the validation coming before the ownership check.
C1_StudentDenied ==
  [][\A s \in Slots :
       (Stepped(s) /\ reqs'[s].role = "student" /\ OnForeignCode(reqs'[s])) =>
         /\ UNCHANGED <<users, codes>>
         /\ Answers(s) =>
              reqs'[s].status =
                IF reqs'[s].op = "updateCode" /\ ~validateCode(reqs'[s].body)
                THEN 400 ELSE 403]_vars

\* A student's valid update of a teacher's submission has been answered 403.
C1_Witness ==
  \E s \in Slots :
    /\ reqs[s].pc = "done" /\ reqs[s].op = "updateCode" /\ reqs[s].role = "student"
    /\ OnForeignCode(reqs[s])
    /\ validateCode(reqs[s].body)
    /\ reqs[s].status = 403

----------------------------------------------------------------------------
\* C2: a teacher who does not own a submission reads it (200) and deletes it
\* (200, the submission is gone); the teacher's update is answered 403 and
\* changes nothing; no step of a teacher's request changes the content or the
\* analysis of a submission of another user that it leaves in place, and only
\* a feedback request changes its feedback and status.
C2_Frame(s) ==
  \A c \in DOMAIN codes \cap DOMAIN codes' :
    codes[c].user # reqs'[s].actor =>
      /\ Content(codes'[c]) = Content(codes[c])
      /\ codes'[c] # codes[c] => reqs'[s].op = "feedback"

C2_TeacherNotOwner403 ==
  [][\A s \in Slots :
       (Stepped(s) /\ reqs'[s].role = "teacher") =>
         /\ C2_Frame(s)
         /\ (OnForeignCode(reqs'[s]) /\ Answers(s)) =>
              /\ reqs'[s].op = "getCode" => reqs'[s].status = 200
              /\ reqs'[s].op = "deleteCode" =>
                   reqs'[s].status = 200 /\ reqs'[s].id \notin DOMAIN codes'
              /\ reqs'[s].op = "updateCode" =>
                   reqs'[s].status = 403 /\ UNCHANGED codes]_vars

\* C2 as amended: the update is answered 400 when its body fails the validation.
C2_TeacherNotOwner ==
  [][\A s \in Slots :
       (Stepped(s) /\ reqs'[s].role = "teacher") =>
         /\ C2_Frame(s)
         /\ (OnForeignCode(reqs'[s]) /\ Answers(s)) =>
              /\ reqs'[s].op = "getCode" => reqs'[s].status = 200
              /\ reqs'[s].op = "deleteCode" =>
                   reqs'[s].status = 200 /\ reqs'[s].id \notin DOMAIN codes'
              /\ reqs'[s].op = "updateCode" =>
                   /\ reqs'[s].status = IF validateCode(reqs'[s].body) THEN 403 ELSE 400
                   /\ UNCHANGED codes]_vars

\* A teacher's valid update of a student's graded submission has been answered 403.
C2_Witness ==
  \E s \in Slots :
    /\ reqs[s].pc = "done" /\ reqs[s].op = "updateCode" /\ reqs[s].role = "teacher"
    /\ OnForeignCode(reqs[s])
    /\ validateCode(reqs[s].body)
    /\ codes[reqs[s].id].feedback # Undefined
    /\ reqs[s].status = 403

----------------------------------------------------------------------------
\* C3: a request to an admin route without authentication is answered 401
\* and one of a student 403, at once (before validation and any query) and
\* with both collections unchanged; every other step of an admin request is
\* a teacher's.
C3_AdminOnlyTeacher ==
  [][\A s \in Slots :
       (Stepped(s) /\ reqs'[s].op \in AdminOps) =>
         /\ reqs'[s].actor = Anon =>
              reqs[s].pc = "idle" /\ Answers(s) /\ reqs'[s].status = 401
              /\ UNCHANGED <<users, codes>>
         /\ reqs'[s].role = "student" =>
              reqs[s].pc = "idle" /\ Answers(s) /\ reqs'[s].status = 403
              /\ UNCHANGED <<users, codes>>
         /\ (reqs[s].pc # "idle" \/ ~Answers(s)) => reqs'[s].role = "teacher"]_vars

\* A student's feedback request on an existing submission has been answered 403.
C3_Witness ==
  \E s \in Slots :
    /\ reqs[s].pc = "done" /\ reqs[s].op = "feedback" /\ reqs[s].role = "student"
    /\ reqs[s].id \in DOMAIN codes
    /\ reqs[s].status = 403

----------------------------------------------------------------------------
\* C4: a feedback request that succeeds with grade g in 0..100 leaves the
\* submission graded with feedback.grade = g; one that succeeds without a
\* grade leaves it reviewed with no grade.
C4_FeedbackSetsStatus ==
  [][\A s \in Slots :
       (reqs[s].op = "feedback" /\ Answers(s) /\ reqs'[s].status = 200) =>
         /\ codes'[reqs[s].id].feedback # Undefined
         /\ codes'[reqs[s].id].feedback[1].grade = reqs[s].grade
         /\ codes'[reqs[s].id].status =
              IF reqs[s].grade # Undefined THEN "graded" ELSE "reviewed"]_vars

----------------------------------------------------------------------------
\* C5: the owner's update with a valid body of an existing submission is
\* answered 200 whatever the status, and leaves the submission submitted,
\* without analysis, with the feedback, the owner and the id it had.
C5_EditResets ==
  [][\A s \in Slots :
       (Answers(s) /\ reqs'[s].op = "updateCode" /\ validateCode(reqs'[s].body)
        /\ reqs'[s].id \in DOMAIN codes
        /\ codes[reqs'[s].id].user = reqs'[s].actor) =>
         /\ reqs'[s].status = 200
         /\ reqs'[s].id \in DOMAIN codes'
         /\ codes'[reqs'[s].id].status = "submitted"
         /\ codes'[reqs'[s].id].analysis = Undefined
         /\ codes'[reqs'[s].id].feedback = codes[reqs'[s].id].feedback
         /\ codes'[reqs'[s].id].user = codes[reqs'[s].id].user]_vars

\* An update has been answered 200 on a submission that carries a grade.
C5_Witness ==
  \E s \in Slots :
    /\ reqs[s].pc = "done" /\ reqs[s].op = "updateCode" /\ reqs[s].status = 200
    /\ reqs[s].id \in DOMAIN codes
    /\ codes[reqs[s].id].status = "submitted"
    /\ codes[reqs[s].id].feedback # Undefined
    /\ codes[reqs[s].id].feedback[1].grade = Some(85)

----------------------------------------------------------------------------
\* C6: once feedback has set the status of a submission (graded or reviewed),
\* the status stays one of the two until the submission is edited: no step
\* of a request other than an update takes it away, a completed analysis
\* included.  (The grade 0 of C4 is left aside: the statuses are taken as the
\* feedback set them.)
C6_FeedbackStatusStays ==
  [][\A s \in Slots : \A c \in DOMAIN codes \cap DOMAIN codes' :
       (Stepped(s) /\ reqs[s].op # "updateCode"
        /\ codes[c].feedback # Undefined
        /\ codes[c].status \in {"graded", "reviewed"}) =>
         codes'[c].status \in {"graded", "reviewed"}]_vars

----------------------------------------------------------------------------
\* C7: an analyze request whose AI call fails writes nothing (no step of an
\* analyze request other than the save of a report changes a collection),
\* and is answered 503 when the connection was refused and 500 otherwise.
C7_FailedAnalysisWritesNothing ==
  [][\A s \in Slots :
       (Stepped(s) /\ reqs'[s].op = "analyze") =>
         /\ ~(Answers(s) /\ reqs'[s].status = 200) => UNCHANGED <<users, codes>>
         /\ (Answers(s) /\ reqs'[s].ai = "ECONNREFUSED") => reqs'[s].status = 503
         /\ (Answers(s) /\ reqs'[s].ai \notin {"", "ok", "ECONNREFUSED"}) =>
              reqs'[s].status = 500]_vars

\* The AI call of an analyze request on a graded submission was refused.
C7_Witness ==
  \E s \in Slots :
    /\ reqs[s].pc = "done" /\ reqs[s].op = "analyze"
    /\ reqs[s].ai = "ECONNREFUSED" /\ reqs[s].status = 503
    /\ reqs[s].id \in DOMAIN codes
    /\ codes[reqs[s].id].status = "graded"

----------------------------------------------------------------------------
\* C8: when a delete-user request is answered 200, the user is gone and no
\* submission has that user as owner; no step of the request changes another
\* user or a submission of another owner.
C8_CascadeDelete ==
  [][\A s \in Slots :
       (Stepped(s) /\ reqs[s].op = "deleteUser") =>
         /\ \A u \in DOMAIN users \ {reqs[s].id} :
              u \in DOMAIN users' /\ users'[u] = users[u]
         /\ \A c \in DOMAIN codes :
              codes[c].user # reqs[s].id => (c \in DOMAIN codes' /\ codes'[c] = codes[c])
         /\ (Answers(s) /\ reqs'[s].status = 200) =>
              /\ reqs[s].id \notin DOMAIN users'
              /\ \A c \in DOMAIN codes' : codes'[c].user # reqs[s].id]_vars

\* A student has been deleted, and the submission of another user is still
\* stored.
C8_Witness ==
  \E s \in Slots :
    /\ reqs[s].pc = "done" /\ reqs[s].op = "deleteUser" /\ reqs[s].status = 200
    /\ reqs[s].id \notin DOMAIN users
    /\ \E c \in DOMAIN codes : codes[c].user \in DOMAIN users

----------------------------------------------------------------------------
\* C9: whenever no delete-user request is being handled, the owner of every
\* submission is an existing user.
C9_NoOrphans ==
  (\A s \in Slots : ~(reqs[s].op = "deleteUser" /\ reqs[s].pc # "done")) =>
    \A c \in DOMAIN codes : codes[c].user \in DOMAIN users

----------------------------------------------------------------------------
\* C10: no step removes a teacher account or changes its role, and a
\* delete-user request on a teacher is answered 403 without deleting anything.
C10_TeachersStay ==
  [][/\ \A u \in DOMAIN users :
          users[u].role = "teacher" =>
            (u \in DOMAIN users' /\ users'[u].role = "teacher")
     /\ \A s \in Slots :
          (Answers(s) /\ reqs[s].op = "deleteUser" /\ reqs[s].id \in DOMAIN users
           /\ users[reqs[s].id].role = "teacher") =>
            (reqs'[s].status = 403 /\ UNCHANGED <<users, codes>>)]_vars

\* A teacher's delete-user request on a teacher has been answered 403 while
\* a submission was stored.
C10_Witness ==
  \E s \in Slots :
    /\ reqs[s].pc = "done" /\ reqs[s].op = "deleteUser" /\ reqs[s].status = 403
    /\ reqs[s].role = "teacher"
    /\ reqs[s].id \in DOMAIN users /\ users[reqs[s].id].role = "teacher"
    /\ DOMAIN codes # {}

----------------------------------------------------------------------------
\* C11: a teacher's feedback request whose grade is outside 0..100 or whose
\* comment is empty is answered 400 on arrival and changes no submission
\* (only a request with a comment and with no grade or a grade in 0..100 goes
\* on to the query); and the grade of every stored feedback is absent or a
\* number in 0..100.
C11_Acceptable(r) ==
  /\ r.comment # ""
  /\ r.grade = Undefined \/ (r.grade[1] >= 0 /\ r.grade[1] <= 100)

C11_GradesInRange ==
  \A c \in DOMAIN codes :
    (codes[c].feedback # Undefined /\ codes[c].feedback[1].grade # Undefined) =>
      codes[c].feedback[1].grade[1] \in 0..100

C11_FeedbackValidated ==
  [][/\ \A s \in Slots :
          (reqs[s].pc = "idle" /\ reqs'[s].op = "feedback" /\ reqs'[s].role = "teacher") =>
            IF Answers(s)
            THEN reqs'[s].status = 400 /\ UNCHANGED <<users, codes>>
            ELSE C11_Acceptable(reqs'[s])
     /\ \A s \in Slots :
          (Stepped(s) /\ reqs[s].op = "feedback" /\ ~C11_Acceptable(reqs[s])) =>
            UNCHANGED codes
     /\ C11_GradesInRange']_vars

\* A teacher's feedback request on a graded submission has been answered 400,
\* and the grade is the one the submission had.
C11_Witness ==
  \E s \in Slots :
    /\ reqs[s].pc = "done" /\ reqs[s].op = "feedback" /\ reqs[s].role = "teacher"
    /\ reqs[s].status = 400
    /\ reqs[s].id \in DOMAIN codes
    /\ codes[reqs[s].id].status = "graded"
    /\ codes[reqs[s].id].feedback[1].grade = Some(85)

----------------------------------------------------------------------------
\* C12: a user-create request whose username is taken is answered 400 with
\* the reason "Username already taken", also when its email is in use as
\* well; the reason "Email already exists" is given when the email is in use
\* and the username is not, and only then; a conflict creates no user.
C12_UsernameFirst ==
  [][\A s \in Slots :
       (Stepped(s) /\ reqs[s].op = "createUser" /\ reqs[s].pc = "find") =>
         LET input == reqs[s].newUser
             nameTaken == \E u \in DOMAIN users : users[u].username = input.username
             emailTaken == \E u \in DOMAIN users : users[u].email = input.email
         IN /\ nameTaken =>
                 /\ Answers(s) /\ reqs'[s].status = 400
                 /\ reqs'[s].error = "Username already taken"
                 /\ UNCHANGED users
            /\ (emailTaken /\ ~nameTaken) =>
                 /\ Answers(s) /\ reqs'[s].status = 400
                 /\ reqs'[s].error = "Email already exists"
                 /\ UNCHANGED users
            /\ reqs'[s].error = "Email already exists" => (emailTaken /\ ~nameTaken)]_vars

----------------------------------------------------------------------------
\* C13: no two users share a username and no two share an email, whatever
\* the interleaving of the user-create requests.
C13_UniqueUsers ==
  \A u, v \in DOMAIN users :
    u # v => (users[u].username # users[v].username /\ users[u].email # users[v].email)

\* A user-create request passed the existence check and then lost the race:
\* its insert failed (500) against the account another request had created
\* in between.
C13_Witness ==
  \E s \in Slots :
    /\ reqs[s].pc = "done" /\ reqs[s].op = "createUser" /\ reqs[s].status = 500
    /\ Cardinality(DOMAIN users) >= 2

----------------------------------------------------------------------------
\* C14: a submission is created with the actor of the create request as
\* owner, whatever user the body names, and no step changes the owner of a
\* stored submission.
C14_OwnerIsCreator ==
  [][/\ \A c \in DOMAIN codes' \ DOMAIN codes :
          \E s \in Slots :
            /\ reqs[s].op = "createCode" /\ Answers(s)
            /\ codes'[c].user = reqs[s].actor
     /\ \A c \in DOMAIN codes \cap DOMAIN codes' : codes'[c].user = codes[c].user]_vars

\* A student has created a submission with a body that names another user,
\* and owns it.
C14_Witness ==
  \E s \in Slots :
    /\ reqs[s].pc = "done" /\ reqs[s].op = "createCode" /\ reqs[s].status = 201
    /\ reqs[s].role = "student"
    /\ reqs[s].body.user # Undefined /\ reqs[s].body.user[1] # reqs[s].actor
    /\ \E c \in DOMAIN codes : codes[c].user = reqs[s].actor

----------------------------------------------------------------------------
----------------------------------------------------------------------------
\* C16: a create request, or the owner's update of a stored submission,
\* whose body has no title, no code, a language outside the list, a title of
\* more than 100 characters or a description of more than 500, is answered
\* 400 and changes no submission.
C16_BreaksRule(body) ==
  \/ body.title = "" \/ body.code = "" \/ body.language \notin Languages
  \/ Len(body.title) > 100
  \/ body.description # Undefined /\ Len(body.description[1]) > 500

C16_ValidationError400 ==
  [][\A s \in Slots :
       (/\ Stepped(s) /\ C16_BreaksRule(reqs'[s].body)
        /\ reqs'[s].actor # Anon
        /\ \/ reqs'[s].op = "createCode"
           \/ /\ reqs'[s].op = "updateCode"
              /\ reqs'[s].id \in DOMAIN codes
              /\ codes[reqs'[s].id].user = reqs'[s].actor) =>
         /\ UNCHANGED codes
         /\ Answers(s) => reqs'[s].status = 400]_vars

----------------------------------------------------------------------------
\* C17: a request (read, update, delete, analyze, feedback, delete-user) that
\* passes the gate of its route and whose identifier is no ObjectId is
\* answered 404, and changes neither collection.
C17_MalformedIs404 ==
  [][\A s \in Slots :
       (/\ Stepped(s) /\ reqs'[s].id = Malformed
        /\ reqs'[s].actor # Anon
        /\ reqs'[s].op \in AdminOps => reqs'[s].role = "teacher") =>
         /\ UNCHANGED <<users, codes>>
         /\ Answers(s) => reqs'[s].status = 404]_vars

----------------------------------------------------------------------------
\* C18: a listing (own submissions, students, a student's submissions) of
\* page p with page size L over T matching records answers total = T,
\* totalPages = ceil(T / L) and min(L, max(0, T - (p - 1) * L)) items; and the
\* pages 1..totalPages of that size, one after the other, are the matching
\* records, each once.
Listings == {"listCodes", "students", "studentCodes"}

\* The records that match the query of the listing r.
Matching(r) ==
  CASE r.op = "listCodes" -> codeQuery(r.actor, r.query)
    [] r.op = "students" -> studentQuery(r.query)
    [] r.op = "studentCodes" -> studentCodeQuery(r.id, r.query)

RECURSIVE C18_Pages(_, _, _)
C18_Pages(sorted, n, limit) ==
  IF n = 0 THEN <<>>
  ELSE C18_Pages(sorted, n - 1, limit) \o skipLimit(sorted, n, limit)

----------------------------------------------------------------------------
\* C19: the list of own submissions holds only submissions that the actor
\* owns and that satisfy every filter that was sent (language equal, status
\* equal, search a case-insensitive substring of the title or of the
\* description), and its total is the number of these submissions.
\* text.toLowerCase().includes(search.toLowerCase()), on the sample strings.
C19_Contains(text, search) ==
  \/ <<text, search>> \in {<<"t1", "T1">>, <<"alice", "AL">>,
                            <<"alice@example.com", "AL">>}
  \/ search = "." /\ text \in {StudentEmails[i] : i \in DOMAIN StudentEmails}

C19_Expected(r) ==
  {c \in DOMAIN codes :
     /\ codes[c].user = r.actor
     /\ TruthyString(r.query.language) => codes[c].language = r.query.language[1]
     /\ TruthyString(r.query.status) => codes[c].status = r.query.status[1]
     /\ TruthyString(r.query.search) =>
          \/ C19_Contains(codes[c].title, r.query.search[1])
          \/ /\ codes[c].description # Undefined
             /\ C19_Contains(codes[c].description[1], r.query.search[1])}

C19_OwnFiltered ==
  \A s \in Slots :
    (reqs[s].pc = "done" /\ reqs[s].op = "listCodes" /\ reqs[s].status = 200) =>
      /\ \A i \in 1..Len(reqs[s].res.items) :
           reqs[s].res.items[i] \in C19_Expected(reqs[s])
      /\ reqs[s].res.total = Cardinality(C19_Expected(reqs[s]))

----------------------------------------------------------------------------
\* C20: the dashboard answers totalSubmissions = the number of stored
\* submissions, and languageStats with one entry for each language that has
\* a submission and none for the others, the count of an entry being the
\* number of submissions in its language; the entries come by non-increasing
\* count and their counts add up to totalSubmissions.
RECURSIVE C20_Sum(_, _)
C20_Sum(stats, n) == IF n = 0 THEN 0 ELSE C20_Sum(stats, n - 1) + stats[n].count

C20_Dashboard ==
  \A s \in Slots :
    (reqs[s].pc = "done" /\ reqs[s].op = "dashboard" /\ reqs[s].status = 200) =>
      LET stats == reqs[s].res.languageStats
          in(l) == {c \in DOMAIN codes : codes[c].language = l}
      IN /\ reqs[s].res.totalSubmissions = Cardinality(DOMAIN codes)
         /\ \A l \in Languages :
              Cardinality({i \in DOMAIN stats : stats[i]._id = l}) =
                IF in(l) = {} THEN 0 ELSE 1
         /\ \A i \in DOMAIN stats :
              stats[i]._id \in Languages /\ stats[i].count = Cardinality(in(stats[i]._id))
         /\ \A i, j \in DOMAIN stats : i < j => stats[i].count >= stats[j].count
         /\ C20_Sum(stats, Len(stats)) = reqs[s].res.totalSubmissions

\* The dashboard has been answered over three submissions, two of them in
\* one language: two entries, the count 2 before the count 1.
C20_Witness ==
  \E s \in Slots :
    /\ reqs[s].pc = "done" /\ reqs[s].op = "dashboard" /\ reqs[s].status = 200
    /\ reqs[s].res.totalSubmissions = 3
    /\ Len(reqs[s].res.languageStats) = 2
    /\ reqs[s].res.languageStats[1].count = 2
    /\ reqs[s].res.languageStats[2].count = 1

----------------------------------------------------------------------------
\* C21: when no stored submission carries a numeric feedback grade (no
\* submission, no feedback, or only feedback without a grade) the dashboard
\* answers gradeStats with avgGrade, minGrade and maxGrade 0; otherwise the
\* three are the average, the least and the greatest of the numeric grades.
C21_Graded ==
  {c \in DOMAIN codes :
     codes[c].feedback # Undefined /\ codes[c].feedback[1].grade # Undefined}

C21_Grades == {codes[c].feedback[1].grade[1] : c \in C21_Graded}

RECURSIVE C21_Sum(_)
C21_Sum(cs) ==
  IF cs = {} THEN 0
  ELSE LET c == CHOOSE x \in cs : TRUE
       IN codes[c].feedback[1].grade[1] + C21_Sum(cs \ {c})

C21_GradeStats ==
  \A s \in Slots :
    (reqs[s].pc = "done" /\ reqs[s].op = "dashboard" /\ reqs[s].status = 200) =>
      LET g == reqs[s].res.gradeStats IN
      /\ g.avgGrade # Undefined /\ g.minGrade # Undefined /\ g.maxGrade # Undefined
      /\ IF C21_Graded = {}
         THEN g.avgGrade[1][1] = 0 /\ g.minGrade[1] = 0 /\ g.maxGrade[1] = 0
         ELSE /\ g.avgGrade[1][1] * Cardinality(C21_Graded) =
                   C21_Sum(C21_Graded) * g.avgGrade[1][2]
              /\ g.minGrade[1] \in C21_Grades /\ g.maxGrade[1] \in C21_Grades
              /\ \A h \in C21_Grades : g.minGrade[1] <= h /\ h <= g.maxGrade[1]

----------------------------------------------------------------------------
\* C22: every account that POST /api/admin/users creates has the role
\* student, whatever role its body names; the action never adds a teacher.
C22_Teachers(us) == {u \in DOMAIN us : us[u].role = "teacher"}

C22_CreatedAreStudents ==
  [][/\ \A u \in DOMAIN users' \ DOMAIN users : users'[u].role = "student"
     /\ C22_Teachers(users') \subseteq C22_Teachers(users)]_vars

\* The account alice, which is only ever asked for with role teacher, has
\* been created, and it is a student.
C22_Witness ==
  \E u \in DOMAIN users : users[u].username = "alice" /\ users[u].role = "student"

----------------------------------------------------------------------------
\* C23: feedback applied to a submission replaces the feedback it had: after
\* a successful call the stored teacher, comment and grade are those of that
\* call alone (a call without a grade leaves no grade and the status
\* reviewed, whatever was stored), and the analysis is as it was.
C23_FeedbackReplaces ==
  [][\A s \in Slots :
       (reqs[s].op = "feedback" /\ Answers(s) /\ reqs'[s].status = 200) =>
         LET r == reqs[s] IN
         /\ codes'[r.id].feedback =
              Some([teacher |-> r.actor, comment |-> r.comment, grade |-> r.grade])
         /\ r.grade = Undefined => codes'[r.id].status = "reviewed"
         /\ codes'[r.id].analysis = codes[r.id].analysis]_vars

\* Both teachers have been answered 200 on the analysed submission, the
\* first having graded it 85; the feedback stored is the second teacher's,
\* without a grade, the status is reviewed and the analysis is still there.
C23_Witness ==
  /\ \E s, t \in Slots :
       /\ reqs[s].pc = "done" /\ reqs[s].op = "feedback" /\ reqs[s].status = 200
       /\ reqs[t].pc = "done" /\ reqs[t].op = "feedback" /\ reqs[t].status = 200
       /\ reqs[s].actor = 1 /\ reqs[t].actor = 3
       /\ reqs[s].id = 1 /\ reqs[t].id = 1
  /\ codes[1].feedback = Some([teacher |-> 3, comment |-> "better", grade |-> Undefined])
  /\ codes[1].status = "reviewed"
  /\ codes[1].analysis # Undefined

----------------------------------------------------------------------------
\* C24: only the owner of a submission can have it analysed.  An analyze
\* request of any other authenticated user, a teacher included, is answered
\* 403 by the step that loads the submission, so that the AI service is
\* never called for it, and leaves the store as it was; a successful analysis was asked for by the owner and sets the
\* status analyzed and the analysis to the report, over any analysis stored
\* before; no other step stores an analysis.
C24_OwnerOnlyAnalysis ==
  [][/\ \A s \in Slots :
          LET r == reqs[s] IN
          /\ (r.op = "analyze" /\ r.pc = "find" /\ Stepped(s) /\ r.id \in DOMAIN codes
                /\ codes[r.id].user # r.actor) =>
                /\ reqs'[s].pc = "done" /\ reqs'[s].status = 403
                /\ codes' = codes
          /\ (r.op = "analyze" /\ reqs'[s].pc = "ai") => codes[r.id].user = r.actor
          /\ (r.op = "analyze" /\ Answers(s) /\ reqs'[s].status = 200) =>
                /\ codes[r.id].user = r.actor
                /\ codes'[r.id].status = "analyzed"
                /\ codes'[r.id].analysis =
                     Some([result |-> AiReport(codes[r.id].language, codes[r.id].code)])
     /\ \A c \in DOMAIN codes \cap DOMAIN codes' :
          (codes'[c].analysis # codes[c].analysis /\ codes'[c].analysis # Undefined) =>
            \E s \in Slots :
              /\ reqs[s].op = "analyze" /\ reqs[s].id = c /\ reqs[s].actor = codes[c].user
              /\ Answers(s) /\ reqs'[s].status = 200]_vars

\* A student's submission carries the report of an analysis, and the
\* analyze request of the teacher, who does not own it, has been answered
\* 403.
C24_Witness ==
  \E s \in Slots :
    /\ reqs[s].pc = "done" /\ reqs[s].op = "analyze" /\ reqs[s].status = 403
    /\ reqs[s].role = "teacher"
    /\ reqs[s].id \in DOMAIN codes
    /\ codes[reqs[s].id].user # reqs[s].actor
    /\ codes[reqs[s].id].status = "analyzed"
    /\ codes[reqs[s].id].analysis =
         Some([result |-> AiReport(codes[reqs[s].id].language, codes[reqs[s].id].code)])

----------------------------------------------------------------------------
\* C25: among concurrent edit, analyze and feedback requests on one
\* submission, each write that commits leaves the status that its mutation
\* sets (so that the final status is that of the write committed last), and
\* no write is refused because another request wrote since the submission
\* was loaded.
C25_StatusOf(r) ==
  CASE r.op = "updateCode" -> {"submitted"}
    [] r.op = "analyze" -> {"analyzed"}
    [] r.op = "feedback" -> {"reviewed", "graded"}

C25_LastWriterWins ==
  [][\A s \in Slots :
       LET r == reqs[s] IN
       /\ (r.op \in {"updateCode", "analyze", "feedback"} /\ Answers(s)
             /\ reqs'[s].status = 200) =>
             codes'[r.id].status \in C25_StatusOf(r)
       /\ (r.op \in {"updateCode", "feedback"} /\ r.pc = "save" /\ Answers(s)
             /\ r.id \in DOMAIN codes) =>
             reqs'[s].status = 200]_vars

----------------------------------------------------------------------------
\* C26: a stored analysis is the analysis of the code that is stored with it:
\* an analysis started before an edit and ended after it is not stored on
\* the edited submission.
C26_AnalysisOfCurrentCode ==
  \A c \in DOMAIN codes :
    codes[c].analysis # Undefined =>
      codes[c].analysis[1].result = AiReport(codes[c].language, codes[c].code)

----------------------------------------------------------------------------
\* C27: in every state, of every submission: status analyzed implies an
\* analysis, status submitted implies no analysis, status reviewed or graded
\* implies feedback, and status graded implies feedback with a numeric grade.
C27_StatusInvariant ==
  \A c \in DOMAIN codes :
    /\ codes[c].status = "analyzed" => codes[c].analysis # Undefined
    /\ codes[c].status = "submitted" => codes[c].analysis = Undefined
    /\ codes[c].status \in {"reviewed", "graded"} => codes[c].feedback # Undefined
    /\ codes[c].status = "graded" =>
         (codes[c].feedback # Undefined /\ codes[c].feedback[1].grade # Undefined)

----------------------------------------------------------------------------
\* C28: after a successful edit, title, language and code are stored as the
\* request supplied them, and so are the description and the tags when the
\* request supplied them, an empty description and an empty list of tags
\* included.
C28_EditStoresSupplied ==
  [][\A s \in Slots :
       LET r == reqs[s] IN
       (r.op = "updateCode" /\ Answers(s) /\ reqs'[s].status = 200) =>
         /\ codes'[r.id].title = r.body.title
         /\ codes'[r.id].language = r.body.language
         /\ codes'[r.id].code = r.body.code
         /\ r.body.description # Undefined =>
              codes'[r.id].description = r.body.description
         /\ r.body.tags # Undefined => codes'[r.id].tags = r.body.tags[1]]_vars

----------------------------------------------------------------------------
\* C29: every analyze request that reaches the handler ends with one
\* response: 200 with the analysis stored, or 503, 500, 403 or 404 with the
\* store as it was.  The AI call is issued once, by the step that loaded the
\* submission, and the step that ends it ends the request (no retry); a call
\* that runs into the timeout ends the request with 500.
C29_Ends == {200, 503, 500, 403, 404}

C29_AnalyzeEnds ==
  /\ [][\A s \in Slots :
          LET r == reqs[s] IN
          /\ (reqs'[s].pc = "ai" /\ Stepped(s)) => (r.op = "analyze" /\ r.pc = "find")
          /\ (r.pc = "ai" /\ Stepped(s)) => Answers(s)
          /\ (r.pc = "done" /\ Stepped(s)) => reqs'[s].pc = "idle"
          /\ (r.op = "analyze" /\ r.pc # "idle" /\ Answers(s)) =>
                /\ reqs'[s].status \in C29_Ends
                /\ reqs'[s].status = 200 =>
                     (r.pc = "ai" /\ codes'[r.id].analysis =
                        Some([result |-> AiReport(r.doc.language, r.doc.code)]))
                /\ reqs'[s].status # 200 => codes' = codes
                /\ reqs'[s].ai = "timeout" => reqs'[s].status = 500]_vars
  /\ \A s \in Slots :
       (reqs[s].op = "analyze" /\ reqs[s].pc \in {"find", "ai"}) ~>
         (reqs[s].op = "analyze" /\ reqs[s].pc = "done" /\ reqs[s].status \in C29_Ends)

\* An analyze request of the owner has ended with 500 after the AI call ran
\* into the timeout, and the submission is as it was created.
C29_Witness ==
  \E s \in Slots :
    /\ reqs[s].op = "analyze" /\ reqs[s].pc = "done"
    /\ reqs[s].ai = "timeout" /\ reqs[s].status = 500
    /\ reqs[s].id \in DOMAIN codes
    /\ codes[reqs[s].id] = NewCode(2, BareBody)

----------------------------------------------------------------------------
\* C30: the startup bootstrap is idempotent and establishes its
\* postcondition.  A run that completes leaves a user with the role teacher
\* and an account with the email admin@codespace.com, whatever the store was;
\* a run inserts an account only when no account has that email, so that a
\* run after a completed run inserts nothing; and at no time do two
\* accounts have that email.
C30_Admins(us) == {u \in DOMAIN us : us[u].email = AdminUser.email}

C30_Completes(s) ==
  reqs[s].op = "connectDB" /\ Answers(s) /\ reqs'[s].status = 0

C30_BootstrapIdempotent ==
  [][/\ \A s \in Slots :
          /\ C30_Completes(s) =>
                /\ \E u \in DOMAIN users' : users'[u].role = "teacher"
                /\ C30_Admins(users') # {}
          /\ (reqs[s].op = "connectDB" /\ Stepped(s) /\ users' # users) =>
                (C30_Admins(users) = {} /\ DOMAIN users \subseteq DOMAIN users')
     /\ Cardinality(C30_Admins(users')) <= 1]_vars

====
